---- MODULE Spec2Model ----
(***************************************************************************)
(* A model of the Bitcoin script codec and interpreter of bitcoin-rs:      *)
(* the opcode <-> tag byte tables, Script's Serialize / Deserialize       *)
(* implementations and Script::interpret (src/src/script.rs).              *)
(*                                                                         *)
(* A byte is a number in 0..255, a Vec<u8> a sequence of bytes.  Indices   *)
(* of the source are 0-based; sequences here are 1-based, so data[i] of    *)
(* the source is data[i + 1] here.                                         *)
(***************************************************************************)
EXTENDS Integers, Sequences, FiniteSets, TLC

----------------------------------------------------------------------------
(* enum Opcode.  A value is a record: the variant's name and its payload   *)
(* bytes (empty for the variants that carry none).                         *)

Atom(n) == [name |-> n, arg |-> <<>>]
OP_PUSHBYTES(x) == [name |-> "OP_PUSHBYTES", arg |-> <<x>>]
OP_PUSHDATA1(x) == [name |-> "OP_PUSHDATA1", arg |-> <<x>>]
OP_PUSHDATA2(x1, x2) == [name |-> "OP_PUSHDATA2", arg |-> <<x1, x2>>]
OP_PUSHDATA4(x1, x2, x3, x4) ==
    [name |-> "OP_PUSHDATA4", arg |-> <<x1, x2, x3, x4>>]

(* The arms 0x4f ..= 0xba of From<u8> for Opcode, in the order of the      *)
(* match: entry j is the arm of byte 0x4e + j.                             *)
FromU8Arms ==
 << "OP_1NEGATE", "OP_RESERVED", "OP_1", "OP_2", "OP_3", "OP_4", "OP_5",
    "OP_6", "OP_7", "OP_8", "OP_9", "OP_10", "OP_11", "OP_12", "OP_13",
    "OP_14", "OP_15", "OP_16", "OP_NOP", "OP_VER", "OP_IF", "OP_NOTIF",
    "OP_VERIF", "OP_VERNOTIF", "OP_ELSE", "OP_ENDIF", "OP_VERIFY",
    "OP_RETURN", "OP_TOALTSTACK", "OP_FROMALTSTACK", "OP_2DROP", "OP_2DUP",
    "OP_3DUP", "OP_2OVER", "OP_2ROT", "OP_2SWAP", "OP_IFDUP", "OP_DEPTH",
    "OP_DROP", "OP_DUP", "OP_NIP", "OP_OVER", "OP_PICK", "OP_ROLL",
    "OP_ROT", "OP_SWAP", "OP_TUCK", "OP_CAT", "OP_SUBSTR", "OP_LEFT",
    "OP_RIGHT", "OP_SIZE", "OP_INVERT", "OP_AND", "OP_OR", "OP_XOR",
    "OP_EQUAL", "OP_EQUALVERIFY", "OP_RESERVED1", "OP_RESERVED2",
    "OP_1ADD", "OP_1SUB", "OP_2MUL", "OP_2DIV", "OP_NEGATE", "OP_ABS",
    "OP_NOT", "OP_0NOTEQUAL", "OP_ADD", "OP_SUB", "OP_MUL", "OP_DIV",
    "OP_MOD", "OP_LSHIFT", "OP_RSHIFT", "OP_BOOLAND", "OP_BOOLOR",
    "OP_NUMEQUAL", "OP_NUMEQUALVERIFY", "OP_NUMNOTEQUAL", "OP_LESSTHAN",
    "OP_GREATERTHAN", "OP_LESSTHANOREQUAL", "OP_GREATERTHANOREQUAL",
    "OP_MIN", "OP_MAX", "OP_WITHIN", "OP_RIPEMD160", "OP_SHA1",
    "OP_SHA256", "OP_HASH160", "OP_HASH256", "OP_CODESEPARATOR",
    "OP_CHECKSIG", "OP_CHECKSIGVERIFY", "OP_CHECKMULTISIG",
    "OP_CHECKMULTISIGVERIFY", "OP_NOP1", "OP_CHECKLOCKTIMEVERIFY",
    "OP_CHECKSEQUENCEVERIFY", "OP_NOP4", "OP_NOP5", "OP_NOP6", "OP_NOP7",
    "OP_NOP8", "OP_NOP9", "OP_NOP10", "OP_CHECKSIGADD" >>

(* The payload-free arms of From<Opcode> for u8, as written in the match   *)
(* (OP_TRUE, OP_NOP2 and OP_NOP3 have arms of their own there).            *)
U8Arms ==
  [ OP_1NEGATE |-> \h4f, OP_RESERVED |-> \h50, OP_1 |-> \h51,
    OP_TRUE |-> \h51, OP_2 |-> \h52, OP_3 |-> \h53, OP_4 |-> \h54,
    OP_5 |-> \h55, OP_6 |-> \h56, OP_7 |-> \h57, OP_8 |-> \h58,
    OP_9 |-> \h59, OP_10 |-> \h5a, OP_11 |-> \h5b, OP_12 |-> \h5c,
    OP_13 |-> \h5d, OP_14 |-> \h5e, OP_15 |-> \h5f, OP_16 |-> \h60,
    OP_NOP |-> \h61, OP_VER |-> \h62, OP_IF |-> \h63, OP_NOTIF |-> \h64,
    OP_VERIF |-> \h65, OP_VERNOTIF |-> \h66, OP_ELSE |-> \h67,
    OP_ENDIF |-> \h68, OP_VERIFY |-> \h69, OP_RETURN |-> \h6a,
    OP_TOALTSTACK |-> \h6b, OP_FROMALTSTACK |-> \h6c, OP_2DROP |-> \h6d,
    OP_2DUP |-> \h6e, OP_3DUP |-> \h6f, OP_2OVER |-> \h70,
    OP_2ROT |-> \h71, OP_2SWAP |-> \h72, OP_IFDUP |-> \h73,
    OP_DEPTH |-> \h74, OP_DROP |-> \h75, OP_DUP |-> \h76, OP_NIP |-> \h77,
    OP_OVER |-> \h78, OP_PICK |-> \h79, OP_ROLL |-> \h7a, OP_ROT |-> \h7b,
    OP_SWAP |-> \h7c, OP_TUCK |-> \h7d, OP_CAT |-> \h7e,
    OP_SUBSTR |-> \h7f, OP_LEFT |-> \h80, OP_RIGHT |-> \h81,
    OP_SIZE |-> \h82, OP_INVERT |-> \h83, OP_AND |-> \h84, OP_OR |-> \h85,
    OP_XOR |-> \h86, OP_EQUAL |-> \h87, OP_EQUALVERIFY |-> \h88,
    OP_RESERVED1 |-> \h89, OP_RESERVED2 |-> \h8a, OP_1ADD |-> \h8b,
    OP_1SUB |-> \h8c, OP_2MUL |-> \h8d, OP_2DIV |-> \h8e,
    OP_NEGATE |-> \h8f, OP_ABS |-> \h90, OP_NOT |-> \h91,
    OP_0NOTEQUAL |-> \h92, OP_ADD |-> \h93, OP_SUB |-> \h94,
    OP_MUL |-> \h95, OP_DIV |-> \h96, OP_MOD |-> \h97, OP_LSHIFT |-> \h98,
    OP_RSHIFT |-> \h99, OP_BOOLAND |-> \h9a, OP_BOOLOR |-> \h9b,
    OP_NUMEQUAL |-> \h9c, OP_NUMEQUALVERIFY |-> \h9d,
    OP_NUMNOTEQUAL |-> \h9e, OP_LESSTHAN |-> \h9f, OP_GREATERTHAN |-> \ha0,
    OP_LESSTHANOREQUAL |-> \ha1, OP_GREATERTHANOREQUAL |-> \ha2,
    OP_MIN |-> \ha3, OP_MAX |-> \ha4, OP_WITHIN |-> \ha5,
    OP_RIPEMD160 |-> \ha6, OP_SHA1 |-> \ha7, OP_SHA256 |-> \ha8,
    OP_HASH160 |-> \ha9, OP_HASH256 |-> \haa, OP_CODESEPARATOR |-> \hab,
    OP_CHECKSIG |-> \hac, OP_CHECKSIGVERIFY |-> \had,
    OP_CHECKMULTISIG |-> \hae, OP_CHECKMULTISIGVERIFY |-> \haf,
    OP_NOP1 |-> \hb0, OP_CHECKLOCKTIMEVERIFY |-> \hb1, OP_NOP2 |-> \hb1,
    OP_CHECKSEQUENCEVERIFY |-> \hb2, OP_NOP3 |-> \hb2, OP_NOP4 |-> \hb3,
    OP_NOP5 |-> \hb4, OP_NOP6 |-> \hb5, OP_NOP7 |-> \hb6, OP_NOP8 |-> \hb7,
    OP_NOP9 |-> \hb8, OP_NOP10 |-> \hb9, OP_CHECKSIGADD |-> \hba ]

(* A conversion either returns a value or panics. *)
Returned(v) == [panic |-> FALSE, val |-> v]
Panicked == [panic |-> TRUE]

(* A faulty variant of OpcodeFromU8: the catch-all arm returns             *)
(* OP_INVALIDOPCODE for every byte without an arm.                         *)
OpcodeFromU8CatchAll(val) ==
    CASE val = \h00 -> Returned(Atom("OP_0"))
      [] val \in \h01..\h4b -> Returned(OP_PUSHBYTES(val))
      [] val = \h4c -> Returned(OP_PUSHDATA1(0))
      [] val = \h4d -> Returned(OP_PUSHDATA2(0, 0))
      [] val = \h4e -> Returned(OP_PUSHDATA4(0, 0, 0, 0))
      [] val \in \h4f..\hba -> Returned(Atom(FromU8Arms[val - \h4e]))
      [] val = \hff -> Returned(Atom("OP_INVALIDOPCODE"))
      [] OTHER -> Returned(Atom("OP_INVALIDOPCODE"))

(* impl From<u8> for Opcode: fn from(val: u8) -> Opcode *)
OpcodeFromU8(val) ==
    CASE val = \h00 -> Returned(Atom("OP_0"))
      [] val \in \h01..\h4b -> Returned(OP_PUSHBYTES(val))
      [] val = \h4c -> Returned(OP_PUSHDATA1(0))
      [] val = \h4d -> Returned(OP_PUSHDATA2(0, 0))
      [] val = \h4e -> Returned(OP_PUSHDATA4(0, 0, 0, 0))
      [] val \in \h4f..\hba -> Returned(Atom(FromU8Arms[val - \h4e]))
      [] val = \hff -> Returned(Atom("OP_INVALIDOPCODE"))
      [] OTHER -> Panicked

(* A faulty variant of U8FromOpcode: OP_PUSHDATA2 gets the tag of           *)
(* OP_PUSHDATA1.                                                           *)
U8FromOpcodeSharedTag(val) ==
    CASE val.name = "OP_0" -> Returned(\h00)
      [] val.name = "OP_FALSE" -> Returned(\h00)
      [] val.name = "OP_PUSHBYTES" ->
            IF val.arg[1] = 0 THEN Panicked
            ELSE IF val.arg[1] >= 76 THEN Panicked
            ELSE Returned(val.arg[1])
      [] val.name = "OP_PUSHDATA1" -> Returned(\h4c)
      [] val.name = "OP_PUSHDATA2" -> Returned(\h4c)
      [] val.name = "OP_PUSHDATA4" -> Returned(\h4e)
      [] val.name = "OP_INVALIDOPCODE" -> Returned(\hff)
      [] OTHER -> Returned(U8Arms[val.name])

(* A faulty variant of U8FromOpcode: OP_PUSHBYTES(0) is not rejected.       *)
U8FromOpcodeNoLowerLimit(val) ==
    CASE val.name = "OP_0" -> Returned(\h00)
      [] val.name = "OP_FALSE" -> Returned(\h00)
      [] val.name = "OP_PUSHBYTES" ->
            IF val.arg[1] >= 76 THEN Panicked
            ELSE Returned(val.arg[1])
      [] val.name = "OP_PUSHDATA1" -> Returned(\h4c)
      [] val.name = "OP_PUSHDATA2" -> Returned(\h4d)
      [] val.name = "OP_PUSHDATA4" -> Returned(\h4e)
      [] val.name = "OP_INVALIDOPCODE" -> Returned(\hff)
      [] OTHER -> Returned(U8Arms[val.name])

(* A faulty variant of U8FromOpcode: the upper limit of OP_PUSHBYTES is    *)
(* tested with `x >= 75`.                                                  *)
U8FromOpcodeOffByOne(val) ==
    CASE val.name = "OP_0" -> Returned(\h00)
      [] val.name = "OP_FALSE" -> Returned(\h00)
      [] val.name = "OP_PUSHBYTES" ->
            IF val.arg[1] = 0 THEN Panicked
            ELSE IF val.arg[1] >= 75 THEN Panicked
            ELSE Returned(val.arg[1])
      [] val.name = "OP_PUSHDATA1" -> Returned(\h4c)
      [] val.name = "OP_PUSHDATA2" -> Returned(\h4d)
      [] val.name = "OP_PUSHDATA4" -> Returned(\h4e)
      [] val.name = "OP_INVALIDOPCODE" -> Returned(\hff)
      [] OTHER -> Returned(U8Arms[val.name])

(* impl From<Opcode> for u8: fn from(val: Opcode) -> u8 *)
U8FromOpcode(val) ==
    CASE val.name = "OP_0" -> Returned(\h00)
      [] val.name = "OP_FALSE" -> Returned(\h00)
      [] val.name = "OP_PUSHBYTES" ->
            IF val.arg[1] = 0 THEN Panicked
            ELSE IF val.arg[1] >= 76 THEN Panicked
            ELSE Returned(val.arg[1])
      [] val.name = "OP_PUSHDATA1" -> Returned(\h4c)
      [] val.name = "OP_PUSHDATA2" -> Returned(\h4d)
      [] val.name = "OP_PUSHDATA4" -> Returned(\h4e)
      [] val.name = "OP_INVALIDOPCODE" -> Returned(\hff)
      [] OTHER -> Returned(U8Arms[val.name])

(* Opcode::is_activated *)
is_activated(self) ==
    self.name \notin
        {"OP_CAT", "OP_SUBSTR", "OP_LEFT", "OP_RIGHT", "OP_INVERT", "OP_AND",
         "OP_OR", "OP_XOR", "OP_2MUL", "OP_2DIV", "OP_MUL", "OP_DIV",
         "OP_MOD", "OP_LSHIFT", "OP_RSHIFT", "OP_CHECKMULTISIG",
         "OP_CHECKMULTISIGVERIFY"}

----------------------------------------------------------------------------
(* enum Term { Instruction(Opcode), Data(Vec<u8>) }, struct Script(Vec<Term>) *)

Instruction(o) == [kind |-> "Instruction", op |-> o]
Data(v) == [kind |-> "Data", bytes |-> v]

IsInstruction(c) == c.kind = "Instruction"
IsData(c) == c.kind = "Data"

(* data[lo..hi] of the source (0-based, half open).  Rust panics when the  *)
(* range reaches past the end of the vector.                               *)
SliceInRange(v, lo, hi) == lo <= hi /\ hi <= Len(v)
Slice(v, lo, hi) == SubSeq(v, lo + 1, hi)

(* data[j] of the source (0-based); Rust panics when j >= data.len().      *)
IndexInRange(v, j) == j < Len(v)
At(v, j) == v[j + 1]

----------------------------------------------------------------------------
(* impl Deserialize for Script: one iteration of `while i < data.len()`.   *)
(* Each operator is one branch of the if / else-if chain.  It gives the    *)
(* cursor after the iteration and the terms the iteration pushes, or       *)
(* panics.                                                                 *)

Advanced(j, ts) == [panic |-> FALSE, i |-> j, terms |-> ts]

(* opcode == 0 *)
DeserializeOP_0(d, j) ==
    Advanced(j + 1, << Instruction(Atom("OP_0")) >>)

(* A faulty variant of DeserializePushBytes: a slice that runs past the    *)
(* end of data is cut at the end instead of panicking.                     *)
DeserializePushBytesClamped(d, j) ==
    LET opcode == At(d, j)
        hi == IF j + 1 + opcode <= Len(d) THEN j + 1 + opcode ELSE Len(d)
    IN  Advanced(j + 1 + opcode,
                 << Instruction(OP_PUSHBYTES(opcode)),
                    Data(Slice(d, j + 1, hi)) >>)

(* opcode <= 75 *)
DeserializePushBytes(d, j) ==
    LET opcode == At(d, j) IN
    IF ~SliceInRange(d, j + 1, j + 1 + opcode) THEN Panicked
    ELSE Advanced(j + 1 + opcode,
                  << Instruction(OP_PUSHBYTES(opcode)),
                     Data(Slice(d, j + 1, j + 1 + opcode)) >>)

(* A faulty variant of DeserializePushData1: `assert!(nb_bytes >= 76)` is  *)
(* left out.                                                               *)
DeserializePushData1NoAssert(d, j) ==
    IF ~IndexInRange(d, j + 1) THEN Panicked
    ELSE LET nb_bytes == At(d, j + 1) IN
         IF ~SliceInRange(d, j + 2, j + 2 + nb_bytes) THEN Panicked
         ELSE Advanced(j + 1 + 1 + nb_bytes,
                       << Instruction(OP_PUSHDATA1(nb_bytes)),
                          Data(Slice(d, j + 2, j + 2 + nb_bytes)) >>)

(* opcode == 0x4c *)
DeserializePushData1(d, j) ==
    IF ~IndexInRange(d, j + 1) THEN Panicked
    ELSE LET nb_bytes == At(d, j + 1) IN
         IF ~(nb_bytes >= 76) THEN Panicked
         ELSE IF ~SliceInRange(d, j + 2, j + 2 + nb_bytes) THEN Panicked
         ELSE Advanced(j + 1 + 1 + nb_bytes,
                       << Instruction(OP_PUSHDATA1(nb_bytes)),
                          Data(Slice(d, j + 2, j + 2 + nb_bytes)) >>)

(* A faulty variant of PushData2Len: the big-endian value of the two bytes, *)
(* without the closing shift.                                              *)
PushData2LenNoShift(b1, b2) == (b1 * 256) + b2

(* nb_bytes of the 0x4d branch: ((b1 << 8) + b2) << 8, in u64 *)
PushData2Len(b1, b2) == ((b1 * 256) + b2) * 256

(* opcode == 0x4d *)
DeserializePushData2(d, j) ==
    IF ~IndexInRange(d, j + 1) \/ ~IndexInRange(d, j + 2) THEN Panicked
    ELSE LET b1 == At(d, j + 1)
             b2 == At(d, j + 2)
             nb_bytes == PushData2Len(b1, b2)
         IN  IF ~SliceInRange(d, j + 3, j + 3 + nb_bytes) THEN Panicked
             ELSE Advanced(j + 2 + 1 + nb_bytes,
                           << Instruction(OP_PUSHDATA2(b1, b2)),
                              Data(Slice(d, j + 3, j + 3 + nb_bytes)) >>)

(* One `nb_bytes = (nb_bytes << 8) + (b as u64)` of the 0x4e branch.  The  *)
(* source computes in u64, where nothing overflows (at most 40 bits are    *)
(* set).  TLC's integers are 32 bits wide: a length of 2^22 or more, which *)
(* is past the end of every buffer of the model, is kept at 2^30, which    *)
(* still is.                                                               *)
Shl8Add(x, b) == IF x >= 4194304 THEN 1073741824 ELSE (x * 256) + b

(* nb_bytes of the 0x4e branch: b1, then << 8 and + b2, + b3, + b4, then   *)
(* `nb_bytes <<= 8`                                                        *)
PushData4Len(b1, b2, b3, b4) ==
    Shl8Add(Shl8Add(Shl8Add(Shl8Add(b1, b2), b3), b4), 0)

(* `i += 5 + 1 + nb_bytes as usize` of the 0x4e branch *)
PushData4Next(j, nb_bytes) == j + 5 + 1 + nb_bytes

(* opcode == 0x4e *)
DeserializePushData4(d, j) ==
    IF \E o \in 1..4 : ~IndexInRange(d, j + o) THEN Panicked
    ELSE LET b1 == At(d, j + 1)
             b2 == At(d, j + 2)
             b3 == At(d, j + 3)
             b4 == At(d, j + 4)
             nb_bytes == PushData4Len(b1, b2, b3, b4)
         IN  IF ~SliceInRange(d, j + 5, j + 5 + nb_bytes) THEN Panicked
             ELSE Advanced(PushData4Next(j, nb_bytes),
                           << Instruction(OP_PUSHDATA4(b1, b2, b3, b4)),
                              Data(Slice(d, j + 5, j + 5 + nb_bytes)) >>)

(* else: Opcode::from(opcode) *)
DeserializeOther(d, j) ==
    LET r == OpcodeFromU8(At(d, j)) IN
    IF r.panic THEN Panicked
    ELSE Advanced(j + 1, << Instruction(r.val) >>)

----------------------------------------------------------------------------
(* impl Serialize for Script: the closure of for_each, for one term c.     *)
(* It gives the bytes pushed on t, or panics (u8::from can panic).         *)

(* A faulty variant of SerializeTerm: a push-data instruction is written   *)
(* as its tag byte alone, like every other instruction.                    *)
SerializeTermTagOnly(c) ==
    IF IsData(c) THEN Returned(c.bytes)
    ELSE LET b == U8FromOpcode(c.op) IN
         IF b.panic THEN Panicked
         ELSE Returned(<< b.val >>)

SerializeTerm(c) ==
    IF IsData(c) THEN Returned(c.bytes)
    ELSE LET b == U8FromOpcode(c.op) IN
         IF b.panic THEN Panicked
         ELSE IF c.op.name \in {"OP_PUSHDATA1", "OP_PUSHDATA2", "OP_PUSHDATA4"}
              THEN Returned(<< b.val >> \o c.op.arg)
              ELSE Returned(<< b.val >>)

----------------------------------------------------------------------------
(* Script::interpret: one iteration of `for c in self.0.clone()`.  The     *)
(* stack is a Vec: its top is the last element, stack.0[0] the first.      *)
(* exp_bytes is an Option<usize>: None is << >>, Some(n) is << n >>.       *)

None == << >>
Some(n) == << n >>

Continue(st, eb) == [ret |-> "continue", stack |-> st, exp_bytes |-> eb]
ReturnFalse == [ret |-> "false"]
(* A faulty variant of Unimplemented: the catch-all arm returns false.     *)
UnimplementedAsFalse == [ret |-> "false"]
(* `_ => unimplemented!(..)`: a panic of its own kind *)
Unimplemented == [ret |-> "unimplemented"]
Panic == [ret |-> "panic"]

RECURSIVE ByteSum(_)
ByteSum(v) == IF v = << >> THEN 0 ELSE Head(v) + ByteSum(Tail(v))

(* Ripemd160(Sha256(hd)): the digests are library code.  What the model    *)
(* keeps of them: the result is a function of the input alone and is 20    *)
(* bytes long.                                                             *)
Hash160(hd) == [j \in 1..20 |-> (ByteSum(hd) + 17 * Len(hd) + 3 * j) % 256]

(* A faulty variant of InterpretData: exp_bytes.unwrap() with no is_none() *)
(* test before it.                                                         *)
InterpretDataUnwrap(st, eb, v) ==
    IF eb = None THEN Panic
    ELSE LET exp_data_length == eb[1] IN
         IF exp_data_length # Len(v) THEN ReturnFalse
         ELSE Continue(Append(st, v), eb)

(* A variant of InterpretData that resets exp_bytes when it accepts the    *)
(* data.                                                                   *)
InterpretDataClears(st, eb, v) ==
    IF eb = None THEN ReturnFalse
    ELSE LET exp_data_length == eb[1] IN
         IF exp_data_length # Len(v) THEN ReturnFalse
         ELSE Continue(Append(st, v), None)

(* Term::Data(v) *)
InterpretData(st, eb, v) ==
    IF eb = None THEN ReturnFalse
    ELSE LET exp_data_length == eb[1] IN
         IF exp_data_length # Len(v) THEN ReturnFalse
         ELSE Continue(Append(st, v), eb)

(* Opcode::OP_0 and Opcode::OP_FALSE: stack.0.push(vec![0]) *)
InterpretOP_0(st, eb) == Continue(Append(st, << 0 >>), eb)
InterpretOP_FALSE(st, eb) == Continue(Append(st, << 0 >>), eb)

(* Opcode::OP_PUSHBYTES(n) *)
InterpretOP_PUSHBYTES(st, eb, n) == Continue(st, Some(n))

(* A faulty variant of InterpretOP_DUP: the top of the stack is copied.     *)
InterpretOP_DUPTop(st, eb) ==
    IF ~IndexInRange(st, 0) THEN Panic
    ELSE LET hd == At(st, Len(st) - 1) IN Continue(Append(st, hd), eb)

(* Opcode::OP_DUP *)
InterpretOP_DUP(st, eb) ==
    IF ~IndexInRange(st, 0) THEN Panic
    ELSE LET hd == At(st, 0) IN Continue(Append(st, hd), eb)

(* A faulty variant of InterpretOP_HASH160: an empty stack gives the       *)
(* verdict false (pop() matched, not unwrapped).                           *)
InterpretOP_HASH160NoUnwrap(st, eb) ==
    IF st = << >> THEN ReturnFalse
    ELSE LET hd == st[Len(st)]
             popped == SubSeq(st, 1, Len(st) - 1)
         IN  Continue(Append(popped, Hash160(hd)), eb)

(* Opcode::OP_HASH160 *)
InterpretOP_HASH160(st, eb) ==
    IF st = << >> THEN Panic
    ELSE LET hd == st[Len(st)]
             popped == SubSeq(st, 1, Len(st) - 1)
         IN  Continue(Append(popped, Hash160(hd)), eb)

(* A faulty variant of InterpretOP_EQUALVERIFY: only the lengths of lhs    *)
(* and rhs are compared.                                                   *)
InterpretOP_EQUALVERIFYLengthOnly(st, eb) ==
    IF Len(st) < 2 THEN Panic
    ELSE LET lhs == st[Len(st)]
             rhs == st[Len(st) - 1]
             rest == SubSeq(st, 1, Len(st) - 2)
             is_equal == Len(lhs) = Len(rhs)
             res == << IF is_equal THEN 1 ELSE 0 >>
             is_true == Len(res) = 1 /\ res[1] = 1
         IN  IF ~is_true THEN ReturnFalse ELSE Continue(rest, eb)

(* A faulty variant of InterpretOP_EQUALVERIFY: the pushed result          *)
(* vec![is_equal as u8] is read but stays on the stack.                    *)
InterpretOP_EQUALVERIFYKeepsResult(st, eb) ==
    IF Len(st) < 2 THEN Panic
    ELSE LET lhs == st[Len(st)]
             rhs == st[Len(st) - 1]
             rest == SubSeq(st, 1, Len(st) - 2)
             is_equal == /\ Len(lhs) = Len(rhs)
                         /\ \A j \in 1..Len(lhs) : lhs[j] = rhs[j]
             res == << IF is_equal THEN 1 ELSE 0 >>
             is_true == Len(res) = 1 /\ res[1] = 1
         IN  IF ~is_true THEN ReturnFalse
             ELSE Continue(Append(rest, res), eb)

(* Opcode::OP_EQUALVERIFY *)
InterpretOP_EQUALVERIFY(st, eb) ==
    IF Len(st) < 2 THEN Panic
    ELSE LET lhs == st[Len(st)]
             rhs == st[Len(st) - 1]
             rest == SubSeq(st, 1, Len(st) - 2)
             is_equal == /\ Len(lhs) = Len(rhs)
                         /\ \A j \in 1..Len(lhs) : lhs[j] = rhs[j]
             res == << IF is_equal THEN 1 ELSE 0 >>
             is_true == Len(res) = 1 /\ res[1] = 1
         IN  IF ~is_true THEN ReturnFalse ELSE Continue(rest, eb)

(* The opcodes that have an arm of their own in interpret's match; every   *)
(* other opcode falls to `_ => unimplemented!(..)`.                        *)
InterpretedOpcodes ==
    {"OP_0", "OP_FALSE", "OP_PUSHBYTES", "OP_DUP", "OP_HASH160",
     "OP_EQUALVERIFY"}

(* A faulty variant of InterpretResult: the rule of Bitcoin itself, valid  *)
(* when the item on top is not [0] (nor missing).                          *)
InterpretResultTruthyTop(st) ==
    IF st # << >> /\ st[Len(st)] # << 0 >> THEN "true" ELSE "false"

(* the value interpret returns after the loop: stack.0.is_empty() *)
InterpretResult(st) == IF st = << >> THEN "true" ELSE "false"

----------------------------------------------------------------------------
(* enum CompactBytes { B1(u8), B2([u8; 2]), B4([u8; 4]), B8([u8; 8]) }     *)
(* (src/src/utils.rs).  A value is a record: the variant and its bytes.    *)

B1(b) == [variant |-> "B1", b |-> << b >>]
B2(b) == [variant |-> "B2", b |-> b]
B4(b) == [variant |-> "B4", b |-> b]
B8(b) == [variant |-> "B8", b |-> b]

(* impl Serialize for CompactBytes: the bytes handed to serialize_bytes *)
CompactSerialize(self) ==
    CASE self.variant = "B1" -> << self.b[1] >>
      [] self.variant = "B2" -> << \hfd, self.b[1], self.b[2] >>
      [] self.variant = "B4" ->
            << \hfe, self.b[1], self.b[2], self.b[3], self.b[4] >>
      [] self.variant = "B8" ->
            << \hff, self.b[1], self.b[2], self.b[3], self.b[4],
               self.b[5], self.b[6], self.b[7], self.b[8] >>

(* A faulty variant of CompactDeserialize: the leading byte of a 5 byte    *)
(* input is compared with 0xFD.                                            *)
CompactDeserializeWrongMarker(s) ==
    IF Len(s) = 1 THEN Returned(B1(s[1]))
    ELSE IF Len(s) = 3
    THEN IF s[1] # \hfd THEN Panicked ELSE Returned(B2(<< s[2], s[3] >>))
    ELSE IF Len(s) = 5
    THEN IF s[1] # \hfd THEN Panicked
         ELSE Returned(B4(<< s[2], s[3], s[4], s[5] >>))
    ELSE IF Len(s) = 9
    THEN IF s[1] # \hff THEN Panicked
         ELSE Returned(B8(<< s[2], s[3], s[4], s[5], s[6], s[7], s[8],
                             s[9] >>))
    ELSE Panicked

(* impl Deserialize for CompactBytes, s being the Vec<u8> read; the        *)
(* assert_eq! and the panic! are panics.                                   *)
CompactDeserialize(s) ==
    IF Len(s) = 1 THEN Returned(B1(s[1]))
    ELSE IF Len(s) = 3
    THEN IF s[1] # \hfd THEN Panicked ELSE Returned(B2(<< s[2], s[3] >>))
    ELSE IF Len(s) = 5
    THEN IF s[1] # \hfe THEN Panicked
         ELSE Returned(B4(<< s[2], s[3], s[4], s[5] >>))
    ELSE IF Len(s) = 9
    THEN IF s[1] # \hff THEN Panicked
         ELSE Returned(B8(<< s[2], s[3], s[4], s[5], s[6], s[7], s[8],
                             s[9] >>))
    ELSE Panicked

(* A faulty variant of CompactBytesFrom: any length other than 1, 3, 5 is  *)
(* taken for 9.                                                            *)
CompactBytesFromNoLengthCheck(s) ==
    IF Len(s) = 1 THEN Returned(B1(s[1]))
    ELSE IF Len(s) = 3
    THEN IF s[1] # \hfd THEN Panicked ELSE Returned(B2(<< s[2], s[3] >>))
    ELSE IF Len(s) = 5
    THEN IF s[1] # \hfe THEN Panicked
         ELSE Returned(B4(<< s[2], s[3], s[4], s[5] >>))
    ELSE IF Len(s) >= 9
    THEN IF s[1] # \hff THEN Panicked
         ELSE Returned(B8(<< s[2], s[3], s[4], s[5], s[6], s[7], s[8],
                             s[9] >>))
    ELSE Panicked

(* impl From<Vec<u8>> for CompactBytes *)
CompactBytesFrom(s) ==
    IF Len(s) = 1 THEN Returned(B1(s[1]))
    ELSE IF Len(s) = 3
    THEN IF s[1] # \hfd THEN Panicked ELSE Returned(B2(<< s[2], s[3] >>))
    ELSE IF Len(s) = 5
    THEN IF s[1] # \hfe THEN Panicked
         ELSE Returned(B4(<< s[2], s[3], s[4], s[5] >>))
    ELSE IF Len(s) = 9
    THEN IF s[1] # \hff THEN Panicked
         ELSE Returned(B8(<< s[2], s[3], s[4], s[5], s[6], s[7], s[8],
                             s[9] >>))
    ELSE Panicked

----------------------------------------------------------------------------
(* struct Signature(Vec<u8>, SignatureType) (src/src/signature.rs).        *)

SignatureTypes ==
    {"SIGHASH_ALL", "SIGHASH_NONE", "SIGHASH_SINGLE", "SIGHASH_ANYONECANPAY",
     "SIGHASH_DEFAULT", "SIGHASH_OUTPUT_MASK", "SIGHASH_INPUT_MASK"}

Signature(blob, sig_type) == [blob |-> blob, sig_type |-> sig_type]

(* impl Serialize for Signature: the bytes handed to serialize_bytes; the  *)
(* unimplemented! of the last three types is a panic.                      *)
SignatureSerialize(self) ==
    CASE self.sig_type = "SIGHASH_ALL" -> Returned(self.blob \o << \h01 >>)
      [] self.sig_type = "SIGHASH_NONE" -> Returned(self.blob \o << \h02 >>)
      [] self.sig_type = "SIGHASH_SINGLE" ->
            Returned(self.blob \o << \h03 >>)
      [] self.sig_type = "SIGHASH_ANYONECANPAY" ->
            Returned(self.blob \o << \h80 >>)
      [] OTHER -> Panicked

(* A faulty variant of SignatureDeserialize: the blob keeps the tag byte.  *)
SignatureDeserializeKeepsTag(bytes) ==
    IF bytes = << >> THEN Panicked
    ELSE LET last == bytes[Len(bytes)]
             blob == bytes
         IN  CASE last = \h01 -> Returned(Signature(blob, "SIGHASH_ALL"))
               [] last = \h02 -> Returned(Signature(blob, "SIGHASH_NONE"))
               [] last = \h03 -> Returned(Signature(blob, "SIGHASH_SINGLE"))
               [] last = \h80 ->
                     Returned(Signature(blob, "SIGHASH_ANYONECANPAY"))
               [] OTHER -> Panicked

(* impl Deserialize for Signature, bytes being the Vec<u8> read:           *)
(* bytes.last() selects the type, bytes[..bytes.len() - 1] is the blob.    *)
SignatureDeserialize(bytes) ==
    IF bytes = << >> THEN Panicked
    ELSE LET last == bytes[Len(bytes)]
             blob == SubSeq(bytes, 1, Len(bytes) - 1)
         IN  CASE last = \h01 -> Returned(Signature(blob, "SIGHASH_ALL"))
               [] last = \h02 -> Returned(Signature(blob, "SIGHASH_NONE"))
               [] last = \h03 -> Returned(Signature(blob, "SIGHASH_SINGLE"))
               [] last = \h80 ->
                     Returned(Signature(blob, "SIGHASH_ANYONECANPAY"))
               [] OTHER -> Panicked

----------------------------------------------------------------------------
(* State.                                                                  *)

VARIABLES
    run,            \* the entry point this behaviour runs
    data,           \* deserialize: the bytes read
    i,              \* deserialize: the cursor
    terms,          \* deserialize: the terms pushed so far
    dres,           \* deserialize: "idle", "running", "ok", "panic"
    script,         \* self.0 of serialize and of interpret
    c,              \* number of terms of script the loop has gone through
    t,              \* serialize: the bytes pushed so far
    sres,           \* serialize: "idle", "running", "ok", "panic"
    initial_stack,  \* interpret: the stack argument
    stack,          \* interpret: its clone, the stack worked on
    exp_bytes,      \* interpret: the expected push length
    verdict,        \* interpret: "idle", "running", "true", "false",
                    \*            "unimplemented", "panic"
    conv_in,        \* conversions: the value converted
    conv_mid,       \* conversions: << first conversion's result >>
    conv_out        \* conversions: << second conversion's result >>

dvars == << data, i, terms, dres >>
svars == << script, c, t, sres >>
ivars == << initial_stack, stack, exp_bytes, verdict >>
cvars == << conv_in, conv_mid, conv_out >>
vars == << run, data, i, terms, dres, script, c, t, sres, initial_stack,
           stack, exp_bytes, verdict, conv_in, conv_mid, conv_out >>

DeserializeIdle == data = << >> /\ i = 0 /\ terms = << >> /\ dres = "idle"
SerializeIdle == t = << >> /\ sres = "idle"
InterpretIdle ==
    /\ initial_stack = << >> /\ stack = << >>
    /\ exp_bytes = None /\ verdict = "idle"
ConvIdle == conv_in = 0 /\ conv_mid = << >> /\ conv_out = << >>

----------------------------------------------------------------------------
(* Inputs.                                                                 *)

MaxChunks == 3
MaxGroups == 2
MaxTerms == 3
MaxStack == 2
MaxCompactLen == 10
MaxBlob == 3

(* n data bytes.  0xee is no tag byte (Opcode::from panics on it), so a    *)
(* decoder that takes data for instructions stops at once.                 *)
Fill(n) == [j \in 1..n |-> \hee]

(* The byte streams handed to deserialize are the concatenations of at     *)
(* most MaxChunks chunks: any single byte of a small alphabet (tags and    *)
(* length bytes), or a push-data header with its data, whole or one byte   *)
(* short.  Nothing aligns the chunks with the decoder's terms.             *)
ByteChunks ==
    { << b >> : b \in {\h00, \h01, \h4c, \h4d, \h4e, \h76, \hbb} }
    \cup { << \h4c, \h4c >> \o Fill(76), << \h4c, \h4c >> \o Fill(75),
           << \h4d, \h00, \h00 >>,
           << \h4d, \h00, \h01 >> \o Fill(256),
           << \h4d, \h00, \h01 >> \o Fill(255),
           << \h4e, \h00, \h00, \h00, \h00 >>,
           << \h4e, \h00, \h00, \h00, \h01 >> \o Fill(256),
           << \h4e, \h00, \h00, \h00, \h01 >> \o Fill(255) }

(* The byte streams handed to deserialize before interpret: the tags the   *)
(* interpreter has an arm for, a one-byte push header (its data byte is    *)
(* the next chunk's first byte), OP_CHECKSIG, and push-data headers.       *)
InterpretChunks ==
    { << b >> : b \in {\h00, \h01, \h76, \ha9, \h88, \hac} }
    \cup { << \h4c, \h4c >> \o Fill(76),
           << \h4d, \h00, \h00 >>,
           << \h4e, \h00, \h00, \h00, \h00 >> }

RECURSIVE Concats(_, _)
Concats(S, n) ==
    IF n = 0 THEN { << >> }
    ELSE LET shorter == Concats(S, n - 1)
         IN  shorter \cup { p \o x : p \in shorter, x \in S }

(* The Scripts handed to serialize: at most MaxGroups groups, a group      *)
(* being one term, or a push-data instruction with the Data term whose     *)
(* length the decoder computes from it.                                    *)
TermGroups ==
    { << Instruction(Atom(n)) >> :
        n \in {"OP_0", "OP_FALSE", "OP_TRUE", "OP_NOP2", "OP_NOP3",
               "OP_DUP", "OP_INVALIDOPCODE"} }
    \cup { << Instruction(OP_PUSHBYTES(n)) >> : n \in {0, 1, 76} }
    \cup { << Data(<< \h76 >>) >>, << Data(<< >>) >>,
           << Instruction(OP_PUSHDATA1(\h4c)) >>,
           << Instruction(OP_PUSHDATA1(1)) >>,
           << Instruction(OP_PUSHDATA2(0, 0)) >>,
           << Instruction(OP_PUSHDATA4(0, 0, 0, 0)) >>,
           << Instruction(OP_PUSHDATA1(\h4c)), Data(Fill(76)) >>,
           << Instruction(OP_PUSHDATA2(0, 0)), Data(<< >>) >>,
           << Instruction(OP_PUSHDATA2(0, 1)), Data(Fill(256)) >>,
           << Instruction(OP_PUSHDATA4(0, 0, 0, 0)), Data(<< >>) >>,
           << Instruction(OP_PUSHDATA4(0, 0, 0, 1)), Data(Fill(256)) >> }

(* interpret's inputs.  PubKey stands for the raw public key on the        *)
(* initial stack, PubKeyHash for its HASH160.                              *)
PubKey == << 4, 7 >>
PubKeyHash == Hash160(PubKey)
StackItems == { << 1 >>, PubKey }

InterpretTerms ==
    { Instruction(Atom(n)) :
        n \in {"OP_0", "OP_FALSE", "OP_DUP", "OP_HASH160", "OP_EQUALVERIFY",
               "OP_CHECKSIG"} }
    \cup { Instruction(OP_PUSHBYTES(1)), Instruction(OP_PUSHBYTES(20)),
           Data(<< 0 >>), Data(PubKeyHash) }

(* every name of enum Opcode that carries no payload *)
AtomNames == DOMAIN U8Arms \cup {"OP_0", "OP_FALSE", "OP_INVALIDOPCODE"}

(* every opcode interpret has no arm for *)
UnimplementedOpcodes ==
    { Atom(n) : n \in AtomNames \ InterpretedOpcodes }
    \cup { OP_PUSHDATA1(\h4c), OP_PUSHDATA2(0, 1), OP_PUSHDATA4(0, 0, 0, 1) }

(* test_script_of_bytes / test_interpreter_p2pkh:                          *)
(* 76 a9 14 <20 bytes> 88 ac, decoded                                      *)
P2PKH ==
    << Instruction(Atom("OP_DUP")), Instruction(Atom("OP_HASH160")),
       Instruction(OP_PUSHBYTES(20)), Data(PubKeyHash),
       Instruction(Atom("OP_EQUALVERIFY")), Instruction(Atom("OP_CHECKSIG")) >>

(* the same without its last term *)
P2PKHPrefix == SubSeq(P2PKH, 1, 5)

RECURSIVE SeqsUpTo(_, _)
SeqsUpTo(S, n) ==
    IF n = 0 THEN { << >> }
    ELSE LET shorter == SeqsUpTo(S, n - 1)
         IN  shorter \cup { Append(p, x) : p \in shorter, x \in S }

InterpretScripts ==
    SeqsUpTo(InterpretTerms, MaxTerms)
    \cup { Append(p, Instruction(o)) :
             p \in SeqsUpTo(InterpretTerms, 1), o \in UnimplementedOpcodes }
    \cup { P2PKH, P2PKHPrefix }

----------------------------------------------------------------------------
(* Initial states, one family per entry point.                             *)

(* Script::of_bytes(bytes), then to_bytes() of the Script it returns *)
InitOfBytes ==
    /\ run = "of_bytes"
    /\ data \in Concats(ByteChunks, MaxChunks)
    /\ i = 0 /\ terms = << >> /\ dres = "running"
    /\ script = << >> /\ c = 0 /\ SerializeIdle
    /\ InterpretIdle /\ ConvIdle

(* Script::of_bytes(bytes), then interpret(stack) of the Script it returns *)
InitOfBytesInterpret ==
    /\ run = "of_bytes_interpret"
    /\ data \in Concats(InterpretChunks, MaxChunks)
    /\ i = 0 /\ terms = << >> /\ dres = "running"
    /\ script = << >> /\ c = 0 /\ SerializeIdle
    /\ initial_stack \in SeqsUpTo(StackItems, MaxStack)
    /\ stack = initial_stack
    /\ exp_bytes = None /\ verdict = "idle"
    /\ ConvIdle

(* Script::new(instr).to_bytes(), then of_bytes of the bytes it returns *)
InitToBytes ==
    /\ run = "to_bytes"
    /\ script \in Concats(TermGroups, MaxGroups)
    /\ c = 0 /\ t = << >> /\ sres = "running"
    /\ DeserializeIdle /\ InterpretIdle /\ ConvIdle

(* Script::of_bytes(script.to_bytes()).to_bytes() *)
InitReencode ==
    /\ run = "reencode"
    /\ script \in Concats(TermGroups, MaxGroups)
    /\ c = 0 /\ t = << >> /\ sres = "running"
    /\ DeserializeIdle /\ InterpretIdle /\ ConvIdle

(* script.interpret(stack) *)
InitInterpret ==
    /\ run = "interpret"
    /\ script \in InterpretScripts
    /\ initial_stack \in SeqsUpTo(StackItems, MaxStack)
    /\ stack = initial_stack
    /\ c = 0 /\ exp_bytes = None /\ verdict = "running"
    /\ DeserializeIdle /\ SerializeIdle /\ ConvIdle

(* The values of enum Opcode handed to u8::from: every payload-free        *)
(* variant, every OP_PUSHBYTES, and push-data variants with a zero and a   *)
(* non-zero payload.                                                       *)
Opcodes ==
    { Atom(n) : n \in AtomNames }
    \cup { OP_PUSHBYTES(n) : n \in 0..255 }
    \cup { OP_PUSHDATA1(n) : n \in {0, \h4c} }
    \cup { OP_PUSHDATA2(0, n) : n \in {0, 1} }
    \cup { OP_PUSHDATA4(0, 0, 0, n) : n \in {0, 1} }

(* The CompactBytes values handed to serialize: every B1, and B2, B4, B8   *)
(* with payload bytes of small alphabets (zero, the markers, ordinary      *)
(* bytes).                                                                 *)
CompactValues ==
    { B1(b) : b \in 0..255 }
    \cup { B2(b) : b \in [1..2 -> {\h00, \h01, \hfc, \hfd, \hff}] }
    \cup { B4(b) : b \in [1..4 -> {\h00, \h01, \hfe}] }
    \cup { B8(b) : b \in [1..8 -> {\h00, \hff}] }

(* The byte vectors handed to the CompactBytes decoders: every length up   *)
(* to MaxCompactLen, a leading byte that is a marker or not, and the bytes *)
(* after it all different or all zero.                                     *)
CompactInputs ==
    { << >> }
    \cup { << m >> \o [j \in 1..n |-> k * j] :
             m \in {\h00, \hfc, \hfd, \hfe, \hff},
             n \in 0..(MaxCompactLen - 1), k \in {0, 1} }

(* deserialize(serialize(x)) for a CompactBytes x *)
InitCompactBytes ==
    /\ run = "compact_roundtrip"
    /\ conv_in \in CompactValues
    /\ conv_mid = << >> /\ conv_out = << >>
    /\ DeserializeIdle /\ script = << >> /\ c = 0 /\ SerializeIdle
    /\ InterpretIdle

(* CompactBytes::deserialize and CompactBytes::from on a byte vector *)
InitCompactDecode ==
    /\ run = "compact_decode"
    /\ conv_in \in CompactInputs
    /\ conv_mid = << >> /\ conv_out = << >>
    /\ DeserializeIdle /\ script = << >> /\ c = 0 /\ SerializeIdle
    /\ InterpretIdle

(* The Signatures handed to serialize: blobs of at most MaxBlob bytes, of  *)
(* the four tag bytes and an ordinary byte, with every SignatureType.      *)
Signatures ==
    { Signature(blob, ty) :
        blob \in SeqsUpTo({\h01, \h02, \h03, \h80, \h30}, MaxBlob),
        ty \in SignatureTypes }

(* deserialize(serialize(sig)) for a Signature sig *)
InitSignature ==
    /\ run = "signature_roundtrip"
    /\ conv_in \in Signatures
    /\ conv_mid = << >> /\ conv_out = << >>
    /\ DeserializeIdle /\ script = << >> /\ c = 0 /\ SerializeIdle
    /\ InterpretIdle

(* u8::from(Opcode::from(b)) for a byte b *)
InitU8 ==
    /\ run = "u8_opcode_u8"
    /\ conv_in \in 0..255
    /\ conv_mid = << >> /\ conv_out = << >>
    /\ DeserializeIdle /\ script = << >> /\ c = 0 /\ SerializeIdle
    /\ InterpretIdle

(* Opcode::from(u8::from(op)) for an opcode op *)
InitOpcode ==
    /\ run = "opcode_u8_opcode"
    /\ conv_in \in Opcodes
    /\ conv_mid = << >> /\ conv_out = << >>
    /\ DeserializeIdle /\ script = << >> /\ c = 0 /\ SerializeIdle
    /\ InterpretIdle

----------------------------------------------------------------------------
(* impl Deserialize for Script: the iterations of the while loop, one      *)
(* action per branch, and the return.                                      *)

Deserializing == dres = "running" /\ i < Len(data)

(* the effect of one iteration whose branch gave r *)
DeserializeStep(r) ==
    /\ IF r.panic
       THEN dres' = "panic" /\ UNCHANGED << i, terms >>
       ELSE i' = r.i /\ terms' = terms \o r.terms /\ dres' = dres
    /\ UNCHANGED << run, data, svars, ivars, cvars >>

DeserializeIterOP_0 ==
    /\ Deserializing /\ At(data, i) = 0
    /\ DeserializeStep(DeserializeOP_0(data, i))

DeserializeIterPushBytes ==
    /\ Deserializing /\ At(data, i) # 0 /\ At(data, i) <= 75
    /\ DeserializeStep(DeserializePushBytes(data, i))

DeserializeIterPushData1 ==
    /\ Deserializing /\ At(data, i) = \h4c
    /\ DeserializeStep(DeserializePushData1(data, i))

DeserializeIterPushData2 ==
    /\ Deserializing /\ At(data, i) = \h4d
    /\ DeserializeStep(DeserializePushData2(data, i))

DeserializeIterPushData4 ==
    /\ Deserializing /\ At(data, i) = \h4e
    /\ DeserializeStep(DeserializePushData4(data, i))

DeserializeIterOther ==
    /\ Deserializing /\ At(data, i) > \h4e
    /\ DeserializeStep(DeserializeOther(data, i))

(* Ok(Script(terms)).  Under of_bytes the caller goes on to serialize the  *)
(* Script returned, under of_bytes_interpret to interpret it, under        *)
(* reencode to serialize it while the first Script is kept.                *)
DeserializeReturn ==
    /\ dres = "running" /\ ~(i < Len(data))
    /\ dres' = "ok"
    /\ IF run = "of_bytes"
       THEN /\ script' = terms /\ c' = 0 /\ t' = << >> /\ sres' = "running"
            /\ UNCHANGED ivars
       ELSE IF run = "of_bytes_interpret"
       THEN /\ script' = terms /\ c' = 0 /\ verdict' = "running"
            /\ UNCHANGED << t, sres, initial_stack, stack, exp_bytes >>
       ELSE IF run = "reencode"
       THEN /\ c' = 0 /\ t' = << >> /\ sres' = "running"
            /\ UNCHANGED << script, ivars >>
       ELSE UNCHANGED << svars, ivars >>
    /\ UNCHANGED << run, data, i, terms, cvars >>

----------------------------------------------------------------------------
(* impl Serialize for Script: the calls of for_each's closure, and         *)
(* serializer.serialize_bytes(&t).                                         *)

(* self.0 of the Script being serialized: under reencode the second       *)
(* serialize is that of the Script deserialize returned.                   *)
SerializeSelf == IF run = "reencode" /\ dres = "ok" THEN terms ELSE script

SerializeIter ==
    /\ sres = "running" /\ c < Len(SerializeSelf)
    /\ LET r == SerializeTerm(SerializeSelf[c + 1]) IN
       IF r.panic
       THEN sres' = "panic" /\ UNCHANGED << c, t >>
       ELSE t' = t \o r.val /\ c' = c + 1 /\ sres' = sres
    /\ UNCHANGED << run, script, dvars, ivars, cvars >>

(* Under to_bytes, and after the first serialize of reencode, the caller   *)
(* goes on to deserialize the bytes returned.                              *)
SerializeReturn ==
    /\ sres = "running" /\ c = Len(SerializeSelf)
    /\ sres' = "ok"
    /\ IF run = "to_bytes" \/ (run = "reencode" /\ dres = "idle")
       THEN data' = t /\ i' = 0 /\ terms' = << >> /\ dres' = "running"
       ELSE UNCHANGED dvars
    /\ UNCHANGED << run, script, c, t, ivars, cvars >>

----------------------------------------------------------------------------
(* Script::interpret: the iterations of the for loop, one action per arm   *)
(* of the match, and the return after the loop.                            *)

Interpreting == verdict = "running" /\ c < Len(script)
Current == script[c + 1]
AtOpcode(n) == Interpreting /\ IsInstruction(Current) /\ Current.op.name = n

(* A faulty variant of InterpretStep: an arm's `return false` is lost and  *)
(* the loop goes on with the next term.                                    *)
InterpretStepIgnoresFalse(r) ==
    /\ IF r.ret = "continue"
       THEN /\ stack' = r.stack /\ exp_bytes' = r.exp_bytes
            /\ c' = c + 1 /\ verdict' = verdict
       ELSE IF r.ret = "false"
       THEN c' = c + 1 /\ UNCHANGED << stack, exp_bytes, verdict >>
       ELSE verdict' = r.ret /\ UNCHANGED << stack, exp_bytes, c >>
    /\ UNCHANGED << run, script, t, sres, initial_stack, dvars, cvars >>

(* the effect of one iteration whose arm gave r *)
InterpretStep(r) ==
    /\ IF r.ret = "continue"
       THEN /\ stack' = r.stack /\ exp_bytes' = r.exp_bytes
            /\ c' = c + 1 /\ verdict' = verdict
       ELSE verdict' = r.ret /\ UNCHANGED << stack, exp_bytes, c >>
    /\ UNCHANGED << run, script, t, sres, initial_stack, dvars, cvars >>

InterpretIterData ==
    /\ Interpreting /\ IsData(Current)
    /\ InterpretStep(InterpretData(stack, exp_bytes, Current.bytes))

InterpretIterOP_0 ==
    /\ AtOpcode("OP_0")
    /\ InterpretStep(InterpretOP_0(stack, exp_bytes))

InterpretIterOP_FALSE ==
    /\ AtOpcode("OP_FALSE")
    /\ InterpretStep(InterpretOP_FALSE(stack, exp_bytes))

InterpretIterOP_PUSHBYTES ==
    /\ AtOpcode("OP_PUSHBYTES")
    /\ InterpretStep(InterpretOP_PUSHBYTES(stack, exp_bytes, Current.op.arg[1]))

InterpretIterOP_DUP ==
    /\ AtOpcode("OP_DUP")
    /\ InterpretStep(InterpretOP_DUP(stack, exp_bytes))

InterpretIterOP_HASH160 ==
    /\ AtOpcode("OP_HASH160")
    /\ InterpretStep(InterpretOP_HASH160(stack, exp_bytes))

InterpretIterOP_EQUALVERIFY ==
    /\ AtOpcode("OP_EQUALVERIFY")
    /\ InterpretStep(InterpretOP_EQUALVERIFY(stack, exp_bytes))

(* _ => unimplemented!("The opcode {opcode} is not implemented") *)
InterpretIterUnimplemented ==
    /\ Interpreting /\ IsInstruction(Current)
    /\ Current.op.name \notin InterpretedOpcodes
    /\ InterpretStep(Unimplemented)

(* stack.0.is_empty() *)
InterpretReturn ==
    /\ verdict = "running" /\ c = Len(script)
    /\ verdict' = InterpretResult(stack)
    /\ UNCHANGED << run, script, c, t, sres, initial_stack, stack,
                    exp_bytes, dvars, cvars >>

----------------------------------------------------------------------------
(* The opcode table's two conversions, applied one after the other.        *)

FirstOpcodeFromU8 ==
    /\ run = "u8_opcode_u8" /\ conv_mid = << >>
    /\ conv_mid' = << OpcodeFromU8(conv_in) >>
    /\ UNCHANGED << run, conv_in, conv_out, dvars, svars, ivars >>

ThenU8FromOpcode ==
    /\ run = "u8_opcode_u8" /\ conv_mid # << >> /\ conv_out = << >>
    /\ ~conv_mid[1].panic
    /\ conv_out' = << U8FromOpcode(conv_mid[1].val) >>
    /\ UNCHANGED << run, conv_in, conv_mid, dvars, svars, ivars >>

FirstU8FromOpcode ==
    /\ run = "opcode_u8_opcode" /\ conv_mid = << >>
    /\ conv_mid' = << U8FromOpcode(conv_in) >>
    /\ UNCHANGED << run, conv_in, conv_out, dvars, svars, ivars >>

ThenOpcodeFromU8 ==
    /\ run = "opcode_u8_opcode" /\ conv_mid # << >> /\ conv_out = << >>
    /\ ~conv_mid[1].panic
    /\ conv_out' = << OpcodeFromU8(conv_mid[1].val) >>
    /\ UNCHANGED << run, conv_in, conv_mid, dvars, svars, ivars >>

----------------------------------------------------------------------------
(* CompactBytes: serialize then deserialize, and the two decoders on raw   *)
(* bytes.                                                                  *)

FirstCompactSerialize ==
    /\ run = "compact_roundtrip" /\ conv_mid = << >>
    /\ conv_mid' = << Returned(CompactSerialize(conv_in)) >>
    /\ UNCHANGED << run, conv_in, conv_out, dvars, svars, ivars >>

ThenCompactDeserialize ==
    /\ run = "compact_roundtrip" /\ conv_mid # << >> /\ conv_out = << >>
    /\ conv_out' = << CompactDeserialize(conv_mid[1].val) >>
    /\ UNCHANGED << run, conv_in, conv_mid, dvars, svars, ivars >>

CompactDeserializeBytes ==
    /\ run = "compact_decode" /\ conv_mid = << >>
    /\ conv_mid' = << CompactDeserialize(conv_in) >>
    /\ UNCHANGED << run, conv_in, conv_out, dvars, svars, ivars >>

CompactBytesFromBytes ==
    /\ run = "compact_decode" /\ conv_out = << >>
    /\ conv_out' = << CompactBytesFrom(conv_in) >>
    /\ UNCHANGED << run, conv_in, conv_mid, dvars, svars, ivars >>

----------------------------------------------------------------------------
(* Signature: serialize, then deserialize the bytes.                       *)

FirstSignatureSerialize ==
    /\ run = "signature_roundtrip" /\ conv_mid = << >>
    /\ conv_mid' = << SignatureSerialize(conv_in) >>
    /\ UNCHANGED << run, conv_in, conv_out, dvars, svars, ivars >>

ThenSignatureDeserialize ==
    /\ run = "signature_roundtrip" /\ conv_mid # << >> /\ conv_out = << >>
    /\ ~conv_mid[1].panic
    /\ conv_out' = << SignatureDeserialize(conv_mid[1].val) >>
    /\ UNCHANGED << run, conv_in, conv_mid, dvars, svars, ivars >>

----------------------------------------------------------------------------
(* Specifications.                                                         *)

DeserializeNext ==
    \/ DeserializeIterOP_0
    \/ DeserializeIterPushBytes
    \/ DeserializeIterPushData1
    \/ DeserializeIterPushData2
    \/ DeserializeIterPushData4
    \/ DeserializeIterOther
    \/ DeserializeReturn

SerializeNext ==
    \/ SerializeIter
    \/ SerializeReturn

InterpretNext ==
    \/ InterpretIterData
    \/ InterpretIterOP_0
    \/ InterpretIterOP_FALSE
    \/ InterpretIterOP_PUSHBYTES
    \/ InterpretIterOP_DUP
    \/ InterpretIterOP_HASH160
    \/ InterpretIterOP_EQUALVERIFY
    \/ InterpretIterUnimplemented
    \/ InterpretReturn

ConvNext ==
    \/ FirstOpcodeFromU8
    \/ ThenU8FromOpcode
    \/ FirstU8FromOpcode
    \/ ThenOpcodeFromU8

CodecNext == DeserializeNext \/ SerializeNext

SignatureNext == FirstSignatureSerialize \/ ThenSignatureDeserialize

CompactNext ==
    \/ FirstCompactSerialize
    \/ ThenCompactDeserialize
    \/ CompactDeserializeBytes
    \/ CompactBytesFromBytes

Init ==
    \/ InitOfBytes \/ InitToBytes \/ InitInterpret \/ InitU8 \/ InitOpcode
    \/ InitCompactBytes \/ InitCompactDecode \/ InitSignature
    \/ InitOfBytesInterpret \/ InitReencode
Next ==
    \/ CodecNext \/ InterpretNext \/ ConvNext \/ CompactNext
    \/ SignatureNext
Spec == Init /\ [][Next]_vars

(* decode, then encode the result *)
SpecOfBytes == InitOfBytes /\ [][CodecNext]_vars
(* encode, then decode the result *)
SpecToBytes == InitToBytes /\ [][CodecNext]_vars
(* the interpreter *)
SpecInterpret == InitInterpret /\ [][InterpretNext]_vars
(* the opcode table *)
SpecOpcode == (InitU8 \/ InitOpcode) /\ [][ConvNext]_vars
(* the CompactBytes codec *)
SpecCompact ==
    (InitCompactBytes \/ InitCompactDecode) /\ [][CompactNext]_vars
(* the Signature codec *)
SpecSignature == InitSignature /\ [][SignatureNext]_vars
(* decode, then interpret the result; decode yields no OP_FALSE *)
OfBytesInterpretNext ==
    \/ DeserializeNext
    \/ InterpretIterData
    \/ InterpretIterOP_0
    \/ InterpretIterOP_PUSHBYTES
    \/ InterpretIterOP_DUP
    \/ InterpretIterOP_HASH160
    \/ InterpretIterOP_EQUALVERIFY
    \/ InterpretIterUnimplemented
    \/ InterpretReturn
SpecOfBytesInterpret == InitOfBytesInterpret /\ [][OfBytesInterpretNext]_vars
(* the opcode table alone, and inside encode, decode, encode again *)
AliasNext == ConvNext \/ CodecNext
SpecAlias == (InitU8 \/ InitOpcode \/ InitReencode) /\ [][AliasNext]_vars
(* u8::from on an opcode alone, and inside serialize *)
EncodeNext == FirstU8FromOpcode \/ ThenOpcodeFromU8 \/ CodecNext
SpecEncode == (InitOpcode \/ InitToBytes) /\ [][EncodeNext]_vars

----------------------------------------------------------------------------
(* Properties.                                                             *)

(* The data length deserialize computes from a push instruction.           *)
DecodedLen(o) ==
    CASE o.name = "OP_PUSHBYTES" -> o.arg[1]
      [] o.name = "OP_PUSHDATA1" -> o.arg[1]
      [] o.name = "OP_PUSHDATA2" -> PushData2Len(o.arg[1], o.arg[2])
      [] o.name = "OP_PUSHDATA4" ->
            PushData4Len(o.arg[1], o.arg[2], o.arg[3], o.arg[4])

IsPush(o) ==
    \/ o.name = "OP_PUSHBYTES" /\ o.arg[1] \in 1..75
    \/ o.name = "OP_PUSHDATA1" /\ o.arg[1] >= 76
    \/ o.name \in {"OP_PUSHDATA2", "OP_PUSHDATA4"}

AliasNames == {"OP_FALSE", "OP_TRUE", "OP_NOP2", "OP_NOP3"}

(* Every push instruction is followed by a Data term of the length decode  *)
(* computes from it, no other Data term occurs, and every other            *)
(* instruction is an atom that is no alias.                                *)
PushesPaired(sc) ==
    \A j \in 1..Len(sc) :
        IF IsData(sc[j])
        THEN j > 1 /\ IsInstruction(sc[j - 1]) /\ IsPush(sc[j - 1].op)
        ELSE IF IsPush(sc[j].op)
             THEN /\ j < Len(sc) /\ IsData(sc[j + 1])
                  /\ Len(sc[j + 1].bytes) = DecodedLen(sc[j].op)
             ELSE sc[j].op.arg = << >> /\ sc[j].op.name \notin AliasNames

(* C1: whenever deserialize accepts a byte sequence, serializing the       *)
(* Script it returns gives back exactly that byte sequence.                *)
C1_ByteRoundTrip ==
    (run = "of_bytes" /\ dres = "ok" /\ sres # "running")
        => (sres = "ok" /\ t = data)

(* C2: for a Script whose pushes are paired with Data terms of the decoded *)
(* length and that holds no alias, serialize succeeds, deserialize of the  *)
(* bytes succeeds and returns the Script itself.                           *)
C2_StructuralRoundTrip ==
    (run = "to_bytes" /\ PushesPaired(script))
        => /\ sres # "panic" /\ dres # "panic"
           /\ dres = "ok" => terms = script

(* C3: when interpret has gone through every term, it returns true if and  *)
(* only if the stack is empty; for the empty script that is: if and only   *)
(* if the initial stack is empty.                                          *)
C3_FinalVerdict ==
    (run = "interpret" /\ c = Len(script) /\ verdict # "running")
        => /\ verdict \in {"true", "false"}
           /\ verdict = "true" <=> stack = << >>
           /\ script = << >> => (verdict = "true" <=> initial_stack = << >>)

(* C3's case: a run through a non-empty script that ends with the single   *)
(* item [1] on the stack, and returns false.                               *)
C3_Witness ==
    /\ run = "interpret" /\ script # << >> /\ c = Len(script)
    /\ stack = << << 1 >> >> /\ verdict = "false"

(* C4: OP_DUP OP_HASH160 OP_PUSHBYTES(20) Data(H) OP_EQUALVERIFY on the    *)
(* stack [P], H the HASH160 of P, ends with an empty stack and true.       *)
C4_P2PKHPrefixValid ==
    (/\ run = "interpret" /\ script = P2PKHPrefix
     /\ initial_stack = << PubKey >> /\ verdict # "running")
        => (verdict = "true" /\ stack = << >>)

(* C5: the decoded pay-to-public-key-hash script, run on a stack of one    *)
(* item, returns true.                                                     *)
C5_P2PKHTrue ==
    (/\ run = "interpret" /\ script = P2PKH
     /\ Len(initial_stack) = 1 /\ verdict # "running")
        => verdict = "true"

(* C6: an iteration that meets an Instruction other than OP_0, OP_FALSE,   *)
(* OP_PUSHBYTES, OP_DUP, OP_HASH160 and OP_EQUALVERIFY ends interpret in   *)
(* the `not implemented` panic, which is no verdict.                       *)
C6_UnimplementedIsFatal ==
    [][ (/\ run = "interpret" /\ Interpreting /\ IsInstruction(Current)
         /\ Current.op.name \notin
              {"OP_0", "OP_FALSE", "OP_PUSHBYTES", "OP_DUP", "OP_HASH160",
               "OP_EQUALVERIFY"})
        => verdict' = "unimplemented" ]_vars

(* C6's case: the disabled OP_CAT, met as the second term.                 *)
C6_Witness ==
    /\ run = "interpret" /\ verdict = "unimplemented" /\ c = 1
    /\ script[2] = Instruction(Atom("OP_CAT"))

(* C7: a script whose first term is Data returns false at that term, on    *)
(* any initial stack, and does nothing else.                               *)
C7_LeadingDataIsFalse ==
    [][ (run = "interpret" /\ script # << >> /\ IsData(script[1]))
        => (verdict' = "false" /\ c' = 0 /\ stack' = initial_stack) ]_vars

(* C7's case: a leading Data term on a non-empty stack, with an            *)
(* unimplemented opcode behind it.                                         *)
C7_Witness ==
    /\ run = "interpret" /\ verdict = "false" /\ c = 0
    /\ Len(script) = 2 /\ IsData(script[1])
    /\ script[2] = Instruction(Atom("OP_CHECKSIG"))
    /\ initial_stack # << >>

(* The cursor j stands on a push tag whose length bytes are missing or     *)
(* whose data reach past the end of d.                                     *)
Truncated(d, j) ==
    LET tag == d[j + 1]
        left == Len(d) - (j + 1)
    IN  \/ tag \in 1..75 /\ left < tag
        \/ tag = \h4c /\ (left < 1 \/ left - 1 < d[j + 2])
        \/ tag = \h4d
             /\ (left < 2 \/ left - 2 < PushData2Len(d[j + 2], d[j + 3]))
        \/ tag = \h4e
             /\ (left < 4
                 \/ left - 4 < PushData4Len(d[j + 2], d[j + 3], d[j + 4],
                                            d[j + 5]))

(* The number of bytes one term takes on the wire, by its tag at j: the    *)
(* tag, its length bytes and its data.                                     *)
WireLen(d, j) ==
    LET tag == d[j + 1] IN
    CASE tag \in 1..75 -> 1 + tag
      [] tag = \h4c -> 2 + d[j + 2]
      [] tag = \h4d -> 3 + PushData2Len(d[j + 2], d[j + 3])
      [] tag = \h4e ->
            5 + PushData4Len(d[j + 2], d[j + 3], d[j + 4], d[j + 5])
      [] OTHER -> 1

(* The stream d, read term after term from j on, holds a truncated push.   *)
(* The reading ends at a byte that is no tag (0xbb ..= 0xfe).              *)
RECURSIVE HasTruncatedPush(_, _)
HasTruncatedPush(d, j) ==
    IF j >= Len(d) THEN FALSE
    ELSE IF Truncated(d, j) THEN TRUE
    ELSE IF d[j + 1] \in \hbb..\hfe THEN FALSE
    ELSE HasTruncatedPush(d, j + WireLen(d, j))

(* C8: deserialize fails, and returns no Script, on every input in which   *)
(* a push tag lacks its length bytes or declares more data than the        *)
(* buffer has left.                                                        *)
C8_TruncatedInputFails ==
    (run = "of_bytes" /\ HasTruncatedPush(data, 0)) => dres # "ok"

(* What holds of C8: at every position the cursor of deserialize itself    *)
(* reaches, a truncated push makes the whole deserialize fail, and a       *)
(* failed deserialize returns no Script.  (The byte the 0x4e branch jumps  *)
(* over is no such position.)                                              *)
TruncatedAtCursorFails ==
    /\ [][ (Deserializing /\ Truncated(data, i)) => dres' = "panic" ]_vars
    /\ [](dres = "panic" => ~ENABLED DeserializeNext)
    /\ []((run = "of_bytes" /\ dres = "panic")
            => (script = << >> /\ sres = "idle"))

(* C9: on the tag 0x4c with a length byte L behind it, the iteration fails *)
(* when L < 76, whatever follows; when L >= 76 and L more bytes follow, it *)
(* pushes Instruction(OP_PUSHDATA1(L)) and Data(those L bytes) and moves   *)
(* the cursor by 2 + L.                                                    *)
C9_PushData1 ==
    [][ (Deserializing /\ At(data, i) = \h4c /\ i + 1 < Len(data))
        => LET L == data[i + 2] IN
           IF L < 76 THEN dres' = "panic"
           ELSE (i + 2 + L <= Len(data))
                  => /\ dres' = "running"
                     /\ i' = i + 2 + L
                     /\ terms' = terms \o
                          << Instruction(OP_PUSHDATA1(L)),
                             Data([m \in 1..L |-> data[i + 2 + m]]) >> ]_vars

(* C9's case: 4c 01 with the one data byte present, and the failure.       *)
C9_Witness ==
    /\ dres = "panic" /\ i = 0 /\ Len(data) >= 3
    /\ data[1] = \h4c /\ data[2] = 1

(* C10: Opcode::from succeeds on the bytes 0x00..0xba and 0xff and on no   *)
(* other; for each of them but 0x4c, 0x4d and 0x4e, u8::from of the opcode *)
(* returns the byte.                                                       *)
C10_ByteOpcodeByte ==
    (run = "u8_opcode_u8" /\ conv_mid # << >>)
        => /\ ~conv_mid[1].panic <=> conv_in \in (0..\hba) \cup {\hff}
           /\ (conv_out # << >> /\ conv_in \notin {\h4c, \h4d, \h4e})
                 => (~conv_out[1].panic /\ conv_out[1].val = conv_in)

(* C10's case: the highest push tag, 0x4b, through both conversions.       *)
C10_Witness ==
    /\ run = "u8_opcode_u8" /\ conv_in = \h4b
    /\ conv_out = << Returned(\h4b) >>

(* The variants that Opcode::from never returns although u8::from accepts  *)
(* them: the alias variants and push-data variants with a payload that is  *)
(* not all zero.                                                           *)
IsAliasOrPayload(op) ==
    \/ op.name \in AliasNames
    \/ /\ op.name \in {"OP_PUSHDATA1", "OP_PUSHDATA2", "OP_PUSHDATA4"}
       /\ \E j \in 1..Len(op.arg) : op.arg[j] # 0

(* C11: on the activated opcodes the tag byte mapping is a bijection: no   *)
(* other activated opcode has the tag byte u8::from gives an activated     *)
(* opcode, and Opcode::from of that byte is the opcode.                    *)
C11_ActivatedBijection ==
    (/\ run = "opcode_u8_opcode" /\ is_activated(conv_in)
     /\ conv_mid # << >> /\ ~conv_mid[1].panic)
        => /\ \A op \in Opcodes :
                (is_activated(op) /\ op # conv_in)
                    => U8FromOpcode(op) # conv_mid[1]
           /\ conv_out # << >> => conv_out[1] = Returned(conv_in)

(* C11 amended: the same, on the activated opcodes other than the alias    *)
(* variants OP_FALSE, OP_TRUE, OP_NOP2, OP_NOP3 and the push-data variants *)
(* with a non-zero payload.                                                *)
C11_ActivatedBijectionNoAlias ==
    (/\ run = "opcode_u8_opcode" /\ is_activated(conv_in)
     /\ ~IsAliasOrPayload(conv_in)
     /\ conv_mid # << >> /\ ~conv_mid[1].panic)
        => /\ \A op \in Opcodes :
                (is_activated(op) /\ ~IsAliasOrPayload(op) /\ op # conv_in)
                    => U8FromOpcode(op) # conv_mid[1]
           /\ conv_out # << >> => conv_out[1] = Returned(conv_in)

(* C11's case: an activated push-data opcode through both conversions.     *)
C11_Witness ==
    /\ run = "opcode_u8_opcode" /\ conv_in = OP_PUSHDATA2(0, 0)
    /\ is_activated(conv_in)
    /\ conv_out = << Returned(OP_PUSHDATA2(0, 0)) >>

(* an OP_PUSHBYTES instruction whose length is not in 1..75 *)
IsBadPushBytes(term) ==
    /\ IsInstruction(term) /\ term.op.name = "OP_PUSHBYTES"
    /\ term.op.arg[1] \notin 1..75

(* C12: u8::from(OP_PUSHBYTES(n)) returns n for n in 1..75 and fails for   *)
(* n = 0 and n in 76..255; serialize of a Script with such an              *)
(* OP_PUSHBYTES never returns, so no bytes reach the caller.               *)
C12_PushBytesRange ==
    /\ (/\ run = "opcode_u8_opcode" /\ conv_in.name = "OP_PUSHBYTES"
        /\ conv_mid # << >>)
          => conv_mid[1] = IF conv_in.arg[1] \in 1..75
                           THEN Returned(conv_in.arg[1]) ELSE Panicked
    /\ (/\ run = "to_bytes"
        /\ \E k \in 1..Len(script) : IsBadPushBytes(script[k]))
          => sres # "ok" /\ data = << >> /\ dres = "idle"

(* C12's case: serialize has pushed the bytes of a first term and fails at *)
(* OP_PUSHBYTES(76).                                                       *)
C12_Witness ==
    /\ run = "to_bytes" /\ sres = "panic" /\ c = 1 /\ t # << >>
    /\ script[2] = Instruction(OP_PUSHBYTES(76))

(* C13: Opcode::from fails for the bytes 0xbb..0xfe and for no other,      *)
(* returns OP_INVALIDOPCODE for 0xff, and returns the push-data variants   *)
(* with an all-zero payload for 0x4c, 0x4d and 0x4e.                       *)
C13_FromByteDomain ==
    (run = "u8_opcode_u8" /\ conv_mid # << >>)
        => /\ conv_mid[1].panic <=> conv_in \in \hbb..\hfe
           /\ conv_in = \hff
                => conv_mid[1] = Returned(Atom("OP_INVALIDOPCODE"))
           /\ conv_in = \h4c => conv_mid[1] = Returned(OP_PUSHDATA1(0))
           /\ conv_in = \h4d => conv_mid[1] = Returned(OP_PUSHDATA2(0, 0))
           /\ conv_in = \h4e
                => conv_mid[1] = Returned(OP_PUSHDATA4(0, 0, 0, 0))

(* C13's case: the last unassigned byte, 0xfe, has been converted.         *)
C13_Witness ==
    run = "u8_opcode_u8" /\ conv_in = \hfe /\ conv_mid = << Panicked >>

(* C14: for every CompactBytes value x, deserialize of the bytes serialize *)
(* gives returns x, and serialize gives 1, 3, 5 or 9 bytes.                *)
C14_CompactRoundTrip ==
    (run = "compact_roundtrip" /\ conv_mid # << >>)
        => /\ Len(conv_mid[1].val) \in {1, 3, 5, 9}
           /\ conv_out # << >> => conv_out[1] = Returned(conv_in)

(* C14's case: an 8 byte payload that holds marker bytes has come back.    *)
C14_Witness ==
    /\ run = "compact_roundtrip" /\ conv_in.variant = "B8"
    /\ conv_in.b[1] = \hff /\ conv_in.b[8] = \h00
    /\ conv_mid # << >> /\ Len(conv_mid[1].val) = 9
    /\ conv_out = << Returned(conv_in) >>

(* The number of bytes of the smallest CompactSize encoding of the value   *)
(* whose little-endian bytes are b: 1 up to 252, 3 up to 65535, 5 up to    *)
(* 2^32 - 1, else 9.                                                       *)
SmallestWidth(b) ==
    IF \E j \in 5..Len(b) : b[j] # 0 THEN 9
    ELSE IF \E j \in 3..Len(b) : b[j] # 0 THEN 5
    ELSE IF (Len(b) >= 2 /\ b[2] # 0) \/ b[1] >= 253 THEN 3
    ELSE 1

(* C15: the bytes serialize gives for a CompactBytes value are the         *)
(* smallest of the four encodings that can hold the value (1 byte up to    *)
(* 252, marker 0xFD and 2 bytes up to 65535, marker 0xFE and 4 bytes up to *)
(* 2^32 - 1, marker 0xFF and 8 bytes above), the payload little-endian.    *)
C15_SmallestWidth ==
    (run = "compact_roundtrip" /\ conv_mid # << >>)
        => LET w == SmallestWidth(conv_in.b)
               e == conv_mid[1].val
           IN  /\ Len(e) = w
               /\ w = 1 => e = << conv_in.b[1] >>
               /\ w > 1 =>
                    /\ e[1] = (CASE w = 3 -> \hfd [] w = 5 -> \hfe
                                 [] w = 9 -> \hff)
                    /\ \A j \in 1..(w - 1) : e[j + 1] = conv_in.b[j]

(* C16: the CompactBytes decoders (deserialize and from) accept a vector   *)
(* exactly when its length is 1, or 3, 5 or 9 with the leading byte 0xFD,  *)
(* 0xFE or 0xFF respectively; the payload then is the one byte, or the     *)
(* bytes after the marker, in order.                                       *)
C16_CompactDecode ==
    run = "compact_decode"
        => LET n == Len(conv_in)
               ok == \/ n = 1
                     \/ n = 3 /\ conv_in[1] = \hfd
                     \/ n = 5 /\ conv_in[1] = \hfe
                     \/ n = 9 /\ conv_in[1] = \hff
               Decoded(r) ==
                    IF ~ok THEN r = Panicked
                    ELSE /\ ~r.panic
                         /\ r.val.variant =
                              (CASE n = 1 -> "B1" [] n = 3 -> "B2"
                                 [] n = 5 -> "B4" [] n = 9 -> "B8")
                         /\ r.val.b = IF n = 1 THEN conv_in
                                      ELSE [j \in 1..(n - 1) |-> conv_in[j + 1]]
           IN  /\ conv_mid # << >> => Decoded(conv_mid[1])
               /\ conv_out # << >> => Decoded(conv_out[1])

(* C16's cases: 9 bytes with the marker of 5 are refused by both decoders; *)
(* 9 bytes with the marker 0xFF and eight different bytes are accepted.    *)
C16_Witness ==
    /\ run = "compact_decode" /\ Len(conv_in) = 9 /\ conv_in[1] = \hfe
    /\ conv_mid = << Panicked >> /\ conv_out = << Panicked >>

C16_WitnessAccepted ==
    /\ run = "compact_decode"
    /\ conv_in = << \hff, 1, 2, 3, 4, 5, 6, 7, 8 >>
    /\ conv_mid = << Returned(B8(<< 1, 2, 3, 4, 5, 6, 7, 8 >>)) >>
    /\ conv_out = conv_mid

(* C17: for every blob and each of SIGHASH_ALL, SIGHASH_NONE,              *)
(* SIGHASH_SINGLE, SIGHASH_ANYONECANPAY, serialize succeeds and            *)
(* deserialize of its bytes returns the Signature.                         *)
C17_SignatureRoundTrip ==
    (/\ run = "signature_roundtrip"
     /\ conv_in.sig_type \in {"SIGHASH_ALL", "SIGHASH_NONE",
                               "SIGHASH_SINGLE", "SIGHASH_ANYONECANPAY"})
        => /\ conv_mid # << >> => ~conv_mid[1].panic
           /\ conv_out # << >> => conv_out[1] = Returned(conv_in)

(* C17's cases: a blob that ends in the tag 0x80 with SIGHASH_ALL, and the *)
(* empty blob, have come back.                                             *)
C17_Witness ==
    /\ run = "signature_roundtrip"
    /\ conv_in = Signature(<< \h30, \h80 >>, "SIGHASH_ALL")
    /\ conv_out = << Returned(conv_in) >>

C17_WitnessEmpty ==
    /\ run = "signature_roundtrip"
    /\ conv_in = Signature(<< >>, "SIGHASH_ANYONECANPAY")
    /\ conv_out = << Returned(conv_in) >>

(* C18: a step of decode that starts at the byte 0x4e and does not fail    *)
(* moves the cursor by exactly 5 + N, N being the length decoded from the  *)
(* four bytes that follow, and produces OP_PUSHDATA4 and the N data bytes: *)
(* the byte after the data is the next one decoded.                        *)
C18_PushData4Consumes ==
    [][ (/\ dres = "running" /\ i < Len(data) /\ data[i + 1] = \h4e
         /\ dres' = "running" /\ terms' # terms)
            => LET N == PushData4Len(data[i + 2], data[i + 3], data[i + 4],
                                     data[i + 5])
               IN  /\ i' = i + 5 + N
                   /\ terms' = terms \o
                        << Instruction(OP_PUSHDATA4(data[i + 2], data[i + 3],
                                                    data[i + 4], data[i + 5])),
                           Data([m \in 1..N |-> data[i + 5 + m]]) >> ]_vars

(* C19: an iteration that accepts a Data term pushes its bytes and leaves  *)
(* no expected push length; a Data term met right after a Data term gives  *)
(* the verdict false.                                                      *)
C19_DataClearsExpectation ==
    [][ /\ (Interpreting /\ IsData(Current) /\ c' = c + 1)
            => /\ stack' = Append(stack, Current.bytes)
               /\ exp_bytes' = None
        /\ (/\ Interpreting /\ IsData(Current)
            /\ c >= 1 /\ IsData(script[c]))
            => verdict' = "false" ]_vars

C21_DupCopiesTop ==
    [][ (AtOpcode("OP_DUP") /\ stack # << >>)
            => /\ verdict' = "running" /\ c' = c + 1
               /\ stack' = Append(stack, stack[Len(stack)]) ]_vars

(* C22: OP_EQUALVERIFY on a stack of at least two items: when the top item *)
(* and the one below it are the same bytes the run goes on with exactly    *)
(* these two removed, nothing added and the items below as they were;      *)
(* otherwise interpret returns false at this term.                         *)
C22_EqualVerify ==
    [][ (AtOpcode("OP_EQUALVERIFY") /\ Len(stack) >= 2)
            => IF stack[Len(stack)] = stack[Len(stack) - 1]
               THEN /\ verdict' = "running" /\ c' = c + 1
                    /\ stack' = SubSeq(stack, 1, Len(stack) - 2)
                    /\ exp_bytes' = exp_bytes
               ELSE verdict' = "false" /\ c' = c ]_vars

(* C22's cases: OP_EQUALVERIFY has removed two equal items from above a    *)
(* third; OP_EQUALVERIFY has returned false on two items of equal length.  *)
C22_Witness ==
    /\ run = "interpret" /\ verdict = "running" /\ c = 2
    /\ script[c] = Instruction(Atom("OP_EQUALVERIFY"))
    /\ initial_stack = << PubKey, PubKey >> /\ stack = << PubKey >>

C22_WitnessFalse ==
    /\ run = "interpret" /\ verdict = "false" /\ c < Len(script)
    /\ script[c + 1] = Instruction(Atom("OP_EQUALVERIFY"))
    /\ Len(stack) >= 2
    /\ Len(stack[Len(stack)]) = Len(stack[Len(stack) - 1])

PushDataNames == {"OP_PUSHDATA1", "OP_PUSHDATA2", "OP_PUSHDATA4"}

(* a push-data instruction followed by a Data term whose length is not the *)
(* one decode computes from the instruction's payload                      *)
HasLengthMismatch(sc) ==
    \E j \in 1..(Len(sc) - 1) :
        /\ IsInstruction(sc[j]) /\ sc[j].op.name \in PushDataNames
        /\ IsData(sc[j + 1])
        /\ Len(sc[j + 1].bytes) # DecodedLen(sc[j].op)

(* what serialize appends for its next term *)
EmitsStoredBytes ==
    (sres = "running" /\ c < Len(script)
     /\ (IsData(script[c + 1])
          \/ script[c + 1].op.name \in PushDataNames))
        => /\ sres' = "running" /\ c' = c + 1
           /\ t' = t \o
                (IF IsData(script[c + 1]) THEN script[c + 1].bytes
                 ELSE << (CASE script[c + 1].op.name = "OP_PUSHDATA1" -> \h4c
                            [] script[c + 1].op.name = "OP_PUSHDATA2" -> \h4d
                            [] script[c + 1].op.name = "OP_PUSHDATA4" -> \h4e)
                      >> \o script[c + 1].op.arg)

C25_UnderflowPanics ==
    [][ /\ ((AtOpcode("OP_DUP") \/ AtOpcode("OP_HASH160"))
              /\ stack = << >>)
            => verdict' = "panic"
        /\ (AtOpcode("OP_EQUALVERIFY") /\ Len(stack) < 2)
            => verdict' = "panic" ]_vars

(* C25's cases: the panic of OP_EQUALVERIFY on a stack of one item, and of *)
(* OP_HASH160 on the empty stack.                                          *)
C25_Witness ==
    /\ run = "interpret" /\ verdict = "panic" /\ c < Len(script)
    /\ script[c + 1] = Instruction(Atom("OP_EQUALVERIFY"))
    /\ Len(stack) = 1

C25_WitnessHash160 ==
    /\ run = "interpret" /\ verdict = "panic" /\ c < Len(script)
    /\ script[c + 1] = Instruction(Atom("OP_HASH160"))
    /\ stack = << >>

(* the positions of the OP_PUSHBYTES instructions among the first k terms  *)
PushBytesBefore(sc, k) ==
    { j \in 1..k : IsInstruction(sc[j]) /\ sc[j].op.name = "OP_PUSHBYTES" }

Last(S) == CHOOSE j \in S : \A m \in S : m <= j

RejectsHere ==
    /\ Interpreting
    /\ \/ /\ IsData(Current)
          /\ (exp_bytes = None \/ exp_bytes[1] # Len(Current.bytes))
       \/ /\ AtOpcode("OP_EQUALVERIFY") /\ Len(stack) >= 2
          /\ stack[Len(stack)] # stack[Len(stack) - 1]

(* C27: interpret goes through the terms in script order, one per step;    *)
(* at the first term that returns false the verdict is false, whatever the *)
(* terms after it are, and no step follows: the later terms have no        *)
(* effect.                                                                 *)
C27_StopsAtFirstFalse ==
    [][ /\ verdict # "false"
        /\ Interpreting
            => \/ c' = c + 1 /\ verdict' = "running"
               \/ c' = c /\ verdict' # "running" /\ stack' = stack
        /\ RejectsHere
            => verdict' = "false" /\ c' = c /\ stack' = stack ]_vars

(* C27's cases: false at a term that is followed by an unimplemented       *)
(* opcode; false at OP_EQUALVERIFY before a term that would underflow.     *)
C27_Witness ==
    /\ run = "interpret" /\ verdict = "false" /\ c + 2 <= Len(script)
    /\ script[c + 2] = Instruction(Atom("OP_CHECKSIG"))

C27_WitnessUnderflow ==
    /\ run = "interpret" /\ verdict = "false" /\ c + 2 <= Len(script)
    /\ script[c + 1] = Instruction(Atom("OP_EQUALVERIFY"))
    /\ script[c + 2] = Instruction(Atom("OP_EQUALVERIFY"))
    /\ Len(stack) = 2

----------------------------------------------------------------------------
PushNames == {"OP_PUSHBYTES"} \cup PushDataNames

(* each Data term directly follows a push instruction and has the length   *)
(* decode computes from it, each push instruction is directly followed by  *)
(* a Data term, and each OP_PUSHBYTES(n) has 1 <= n <= 75                   *)
WellFormed(sc) ==
    \A j \in 1..Len(sc) :
        IF IsData(sc[j])
        THEN /\ j > 1 /\ IsInstruction(sc[j - 1])
             /\ sc[j - 1].op.name \in PushNames
             /\ Len(sc[j].bytes) = DecodedLen(sc[j - 1].op)
        ELSE /\ (sc[j].op.name \in PushNames)
                => (j < Len(sc) /\ IsData(sc[j + 1]))
             /\ (sc[j].op.name = "OP_PUSHBYTES")
                => (sc[j].op.arg[1] \in 1..75)

(* C28: every Script decode returns is well formed (Data terms and push    *)
(* instructions come in adjacent pairs, the Data length is the one decode  *)
(* computed, OP_PUSHBYTES(n) has 1 <= n <= 75), and interpreting such a     *)
(* Script never gives the verdict false at a Data term, the one place      *)
(* where a missing push instruction or a length mismatch is rejected.      *)
C28_DecodedWellFormed ==
    (run = "of_bytes_interpret" /\ dres = "ok")
        => /\ WellFormed(terms)
           /\ script = terms
           /\ (verdict = "false" /\ c < Len(script))
                => ~IsData(script[c + 1])

(* a decoded Script with a push pair whose Data term interpret has taken   *)
C28_Witness ==
    /\ run = "of_bytes_interpret" /\ dres = "ok"
    /\ verdict \in {"running", "true", "false"}
    /\ \E j \in 1..c : IsData(script[j])

(* a decoded Script that interpret rejects, at an instruction *)
C28_WitnessFalse ==
    /\ run = "of_bytes_interpret" /\ dres = "ok" /\ verdict = "false"
    /\ c < Len(script)
    /\ \E j \in 1..Len(script) : IsData(script[j])

----------------------------------------------------------------------------
(* the terms among the first k of sc that push one item when they are gone *)
(* through, and those that take two                                        *)
PushingTerms(sc, k) ==
    { j \in 1..k : \/ IsData(sc[j])
                   \/ sc[j].op.name \in {"OP_0", "OP_FALSE", "OP_DUP"} }
EqualVerifyTerms(sc, k) ==
    { j \in 1..k : IsInstruction(sc[j]) /\ sc[j].op.name = "OP_EQUALVERIFY" }

(* C29: while an interpret run has not failed, the stack depth is the      *)
(* initial depth plus the number of OP_0, OP_FALSE, OP_DUP and Data terms  *)
(* gone through minus twice the number of OP_EQUALVERIFY terms gone        *)
(* through (OP_PUSHBYTES and OP_HASH160 count for nothing); a run that     *)
(* returns true has initial depth plus pushing terms equal to twice the    *)
(* OP_EQUALVERIFY terms of the whole script.                               *)
C29_DepthAccounting ==
    /\ (run = "interpret" /\ verdict = "running")
          => Len(stack) = Len(initial_stack)
                          + Cardinality(PushingTerms(script, c))
                          - 2 * Cardinality(EqualVerifyTerms(script, c))
    /\ (run = "interpret" /\ verdict = "true")
          => Len(initial_stack)
             + Cardinality(PushingTerms(script, Len(script)))
                = 2 * Cardinality(EqualVerifyTerms(script, Len(script)))

(* a run that returns true after a pushing term and a successful          *)
(* OP_EQUALVERIFY, from a non-empty stack                                  *)
C29_Witness ==
    /\ run = "interpret" /\ verdict = "true" /\ initial_stack # << >>
    /\ EqualVerifyTerms(script, Len(script)) # {}
    /\ PushingTerms(script, Len(script)) # {}

(* a run in progress that has gone through OP_PUSHBYTES, OP_HASH160 and    *)
(* a successful OP_EQUALVERIFY                                             *)
C29_WitnessRunning ==
    /\ run = "interpret" /\ verdict = "running"
    /\ EqualVerifyTerms(script, c) # {}
    /\ \E j \in 1..c : IsInstruction(script[j])
                       /\ script[j].op.name = "OP_HASH160"

----------------------------------------------------------------------------
(* the byte an alias variant encodes to and the variant that byte decodes  *)
(* to, as the claim lists them                                             *)
AliasByte(n) ==
    CASE n = "OP_FALSE" -> \h00
      [] n = "OP_TRUE" -> \h51
      [] n = "OP_NOP2" -> \hb1
      [] n = "OP_NOP3" -> \hb2
AliasDecoded(n) ==
    CASE n = "OP_FALSE" -> "OP_0"
      [] n = "OP_TRUE" -> "OP_1"
      [] n = "OP_NOP2" -> "OP_CHECKLOCKTIMEVERIFY"
      [] n = "OP_NOP3" -> "OP_CHECKSEQUENCEVERIFY"

HoldsAlias(sc) ==
    \E j \in 1..Len(sc) :
        IsInstruction(sc[j]) /\ sc[j].op.name \in AliasNames

(* C30: Opcode::from(u8) and Script decode never return OP_FALSE, OP_TRUE,  *)
(* OP_NOP2 or OP_NOP3; these variants encode to 0x00, 0x51, 0xb1, 0xb2 and *)
(* decode back as OP_0, OP_1, OP_CHECKLOCKTIMEVERIFY and                   *)
(* OP_CHECKSEQUENCEVERIFY; so for a Script s holding an alias, whenever    *)
(* decode(encode(s)) is returned it differs from s, and encoding it again  *)
(* gives encode(s).                                                        *)
C30_AliasNormalisation ==
    /\ (run = "u8_opcode_u8" /\ conv_mid # << >> /\ ~conv_mid[1].panic)
          => conv_mid[1].val.name \notin AliasNames
    /\ (/\ run = "opcode_u8_opcode" /\ conv_in.name \in AliasNames
        /\ conv_mid # << >>)
          => /\ conv_mid[1] = Returned(AliasByte(conv_in.name))
             /\ conv_out # << >>
                   => conv_out[1] = Returned(Atom(AliasDecoded(conv_in.name)))
    /\ run = "reencode"
          => /\ ~HoldsAlias(terms)
             /\ (HoldsAlias(script) /\ dres = "ok") => terms # script
             /\ (HoldsAlias(script) /\ dres = "ok" /\ sres = "ok")
                   => t = data

(* the same without the last equation: what holds of alias normalisation   *)
C30_AliasesDecodeCanonical ==
    /\ (run = "u8_opcode_u8" /\ conv_mid # << >> /\ ~conv_mid[1].panic)
          => conv_mid[1].val.name \notin AliasNames
    /\ (/\ run = "opcode_u8_opcode" /\ conv_in.name \in AliasNames
        /\ conv_mid # << >>)
          => /\ conv_mid[1] = Returned(AliasByte(conv_in.name))
             /\ conv_out # << >>
                   => conv_out[1] = Returned(Atom(AliasDecoded(conv_in.name)))
    /\ run = "reencode"
          => /\ ~HoldsAlias(terms)
             /\ (HoldsAlias(script) /\ dres = "ok") => terms # script

(* a Script holding an alias, encoded, decoded and encoded again to the    *)
(* same bytes                                                              *)
C30_Witness ==
    /\ run = "reencode" /\ HoldsAlias(script)
    /\ dres = "ok" /\ sres = "ok" /\ t = data /\ terms # script

(* a Script holding an alias after OP_PUSHDATA4 and its data: the second   *)
(* encoding is shorter than the first                                      *)
C30_WitnessSkipped ==
    /\ run = "reencode" /\ HoldsAlias(script)
    /\ dres = "ok" /\ sres = "ok" /\ t # data

====
